---- MODULE Spec2Model ----
(***************************************************************************)
(* Spotify search proxy (src/server.js): the process-wide token cache,     *)
(* getAccessToken, and the GET /api/search and GET /api/health handlers.   *)
(*                                                                         *)
(* Every handler runs on one event loop, so the code between two awaits is *)
(* one atomic step.  A search request r moves through                      *)
(*   idle -> token_wait -> token_ready -> search_wait -> done              *)
(* where token_wait is the await of the token exchange (fetch + r.json()), *)
(* token_ready the await of getAccessToken's promise in the handler, and   *)
(* search_wait the await of the search call (fetch + r.json()).            *)
(*                                                                         *)
(* Text the code inspects character by character (q, lang, limit) is a     *)
(* sequence of one-character strings; text it only passes on (tokens,      *)
(* error messages) is a string.                                            *)
(***************************************************************************)
EXTENDS Integers, Sequences, FiniteSets, TLC

\* ---------------------------------------------------------------- bounds
NumReq == 2
StartTime == 20000
TickMs == 10000
MaxTicks == 1

Reqs == 1..NumReq
MaxTime == StartTime + MaxTicks * TickMs

\* ------------------------------------------------------ program constants
SafetyMarginMs == 10000
MsPerSecond == 1000
MinLimit == 1
MaxLimit == 50
StatusOk == 200
StatusBadRequest == 400
StatusServerError == 500

\* ------------------------------------------------------------- JS values
\* null and undefined where the code holds a string
JSNull == "<null>"
JSUndefined == "<undefined>"

\* truthiness of a string-or-null-or-undefined value
Truthy(v) == v \notin {JSNull, JSUndefined, ""}

\* numbers with NaN
Num(n) == [nan |-> FALSE, v |-> n]
NaN == [nan |-> TRUE, v |-> 0]

JSAdd(a, b) == IF a.nan \/ b.nan THEN NaN ELSE Num(a.v + b.v)
JSSub(a, b) == IF a.nan \/ b.nan THEN NaN ELSE Num(a.v - b.v)
JSMul(a, b) == IF a.nan \/ b.nan THEN NaN ELSE Num(a.v * b.v)
JSLt(a, b) == ~a.nan /\ ~b.nan /\ a.v < b.v

MathMax(a, b) == IF a.nan \/ b.nan THEN NaN ELSE Num(IF a.v >= b.v THEN a.v ELSE b.v)
MathMin(a, b) == IF a.nan \/ b.nan THEN NaN ELSE Num(IF a.v <= b.v THEN a.v ELSE b.v)

\* a member of a parsed JSON object that holds a number, or is missing
Field(n) == [def |-> TRUE, n |-> n]
Missing == [def |-> FALSE, n |-> 0]
ToNumber(f) == IF f.def THEN Num(f.n) ELSE NaN

\* a query-string parameter: absent (undefined) or a text
Param(s) == [present |-> TRUE, val |-> s]
Absent == [present |-> FALSE, val |-> << >>]

\* p || dflt for a query-string parameter
OrDefault(p, dflt) == IF p.present /\ p.val # << >> THEN p.val ELSE dflt

\* ------------------------------------------------------------ text helpers
IsSpace(c) == c \in {" ", "\t", "\n"}

RECURSIVE TrimStart(_)
TrimStart(s) == IF s # << >> /\ IsSpace(Head(s)) THEN TrimStart(Tail(s)) ELSE s

RECURSIVE TrimEnd(_)
TrimEnd(s) ==
    IF s # << >> /\ IsSpace(s[Len(s)]) THEN TrimEnd(SubSeq(s, 1, Len(s) - 1)) ELSE s

Trim(s) == TrimEnd(TrimStart(s))

Upper == <<"A", "B", "C", "D", "E", "F", "G", "H", "I", "J", "K", "L", "M",
           "N", "O", "P", "Q", "R", "S", "T", "U", "V", "W", "X", "Y", "Z">>
Lower == <<"a", "b", "c", "d", "e", "f", "g", "h", "i", "j", "k", "l", "m",
           "n", "o", "p", "q", "r", "s", "t", "u", "v", "w", "x", "y", "z">>

LowerChar(c) ==
    IF \E i \in 1..Len(Upper) : Upper[i] = c
    THEN Lower[CHOOSE i \in 1..Len(Upper) : Upper[i] = c]
    ELSE c

ToLowerCase(s) == [i \in 1..Len(s) |-> LowerChar(s[i])]

\* ------------------------------------------------------------- parseInt
Digits == <<"0", "1", "2", "3", "4", "5", "6", "7", "8", "9">>
IsDigit(c) == \E i \in 1..10 : Digits[i] = c
DigitVal(c) == (CHOOSE i \in 1..10 : Digits[i] = c) - 1

RECURSIVE DigitPrefix(_)
DigitPrefix(s) ==
    IF s # << >> /\ IsDigit(Head(s)) THEN <<Head(s)>> \o DigitPrefix(Tail(s)) ELSE << >>

RECURSIVE DecimalValue(_)
DecimalValue(d) ==
    IF d = << >> THEN 0 ELSE 10 * DecimalValue(SubSeq(d, 1, Len(d) - 1)) + DigitVal(d[Len(d)])

\* parseInt(s, 10): leading white space, an optional sign, the longest run of
\* decimal digits; NaN when there is no digit
parseInt(s) ==
    LET t == TrimStart(s)
        signed == t # << >> /\ Head(t) \in {"-", "+"}
        body == IF signed THEN Tail(t) ELSE t
        d == DigitPrefix(body)
    IN  IF d = << >> THEN NaN
        ELSE IF signed /\ Head(t) = "-" THEN Num(0 - DecimalValue(d))
        ELSE Num(DecimalValue(d))

DefaultLimitText == <<"2", "4">>

\* Math.min(Math.max(parseInt(req.query.limit || "24", 10), 1), 50)
clampLimit(limitParam) ==
    MathMin(MathMax(parseInt(OrDefault(limitParam, DefaultLimitText)), Num(MinLimit)),
            Num(MaxLimit))

\* --------------------------------------------------- LANG_HINT, buildQuery
KeyHindi == <<"h", "i", "n", "d", "i">>
KeyEnglish == <<"e", "n", "g", "l", "i", "s", "h">>
KeyKannada == <<"k", "a", "n", "n", "a", "d", "a">>
KeyTamil == <<"t", "a", "m", "i", "l">>
KeyTelugu == <<"t", "e", "l", "u", "g", "u">>
HintHindi == <<"H", "i", "n", "d", "i", " ", "s", "o", "n", "g">>
HintEnglish == <<"E", "n", "g", "l", "i", "s", "h", " ", "s", "o", "n", "g">>
HintKannada == <<"K", "a", "n", "n", "a", "d", "a", " ", "s", "o", "n", "g">>
HintTamil == <<"T", "a", "m", "i", "l", " ", "s", "o", "n", "g">>
HintTelugu == <<"T", "e", "l", "u", "g", "u", " ", "s", "o", "n", "g">>

\* LANG_HINT is an object literal, so a lookup also finds what it inherits
\* from Object.prototype; of those names only these two are all lower case
KeyConstructor == <<"c", "o", "n", "s", "t", "r", "u", "c", "t", "o", "r">>
KeyProto == <<"_", "_", "p", "r", "o", "t", "o", "_", "_">>
ObjectFunctionText ==
    <<"f", "u", "n", "c", "t", "i", "o", "n", " ", "O", "b", "j", "e", "c", "t", "(", ")", " ", "{", " ", "[", "n", "a", "t", "i", "v", "e", " ", "c", "o", "d", "e", "]", " ", "}">>
ObjectText == <<"[", "o", "b", "j", "e", "c", "t", " ", "O", "b", "j", "e", "c", "t", "]">>

\* LANG_HINT[key] || "" as join(" ") will print it
LangHintLookup(key) ==
    CASE key = KeyHindi -> HintHindi
      [] key = KeyEnglish -> HintEnglish
      [] key = KeyKannada -> HintKannada
      [] key = KeyTamil -> HintTamil
      [] key = KeyTelugu -> HintTelugu
      [] key = KeyConstructor -> ObjectFunctionText
      [] key = KeyProto -> ObjectText
      [] OTHER -> << >>

\* mutant of the join: two spaces as the separator
JoinTwoSpaces(q, hint) ==
    IF q = << >> THEN hint
    ELSE IF hint = << >> THEN q
    ELSE q \o <<" ", " ">> \o hint

\* [q, hint].filter(Boolean).join(" ")
JoinNonEmpty(q, hint) ==
    IF q = << >> THEN hint
    ELSE IF hint = << >> THEN q
    ELSE q \o <<" ">> \o hint

\* buildQuery(q, lang); lang is a text here, the handler has defaulted it
buildQuery(q, lang) == Trim(JoinNonEmpty(q, LangHintLookup(ToLowerCase(lang))))
\* ---------------------------------------------------------------- mapTrack
\* a member of a parsed JSON object that holds a boolean, or is missing
Bool(b) == [def |-> TRUE, b |-> b]
NoBool == [def |-> FALSE, b |-> FALSE]

\* a member that holds an array, or is missing
List(s) == [def |-> TRUE, list |-> s]
NoList == [def |-> FALSE, list |-> << >>]

\* t.album: name is its name or JSUndefined; images holds the url of each
\* image, JSUndefined for an entry without one
Album(name, images) == [def |-> TRUE, name |-> name, images |-> images]
NoAlbum == [def |-> FALSE, name |-> JSUndefined, images |-> NoList]

\* an upstream track: artists holds the artists' names; spotify is
\* external_urls?.spotify
Track(id, name, artists, album, spotify, duration_ms, explicit, preview_url) ==
    [id |-> id, name |-> name, artists |-> artists, album |-> album, spotify |-> spotify,
     duration_ms |-> duration_ms, explicit |-> explicit, preview_url |-> preview_url]

RECURSIVE JoinNames(_)
JoinNames(names) ==
    IF names = << >> THEN ""
    ELSE IF Len(names) = 1 THEN names[1]
    ELSE names[1] \o ", " \o JoinNames(Tail(names))

\* t.artists?.map((a) => a.name).join(", ") || ""
artistsOf(t) == IF t.artists.def THEN JoinNames(t.artists.list) ELSE ""

\* t.album?.name || ""
albumNameOf(t) == IF t.album.def /\ Truthy(t.album.name) THEN t.album.name ELSE ""

\* t.album?.images && t.album.images[i - 1]?.url
ImageAt(album, i) ==
    IF album.def /\ album.images.def /\ i <= Len(album.images.list)
    THEN album.images.list[i]
    ELSE JSUndefined

\* mutant of the image choice: only the first image is looked at
pickImageFirstOnly(album) ==
    IF Truthy(ImageAt(album, 1)) THEN ImageAt(album, 1) ELSE ""

\* lines 75-79
pickImage(album) ==
    IF Truthy(ImageAt(album, 1)) THEN ImageAt(album, 1)
    ELSE IF Truthy(ImageAt(album, 2)) THEN ImageAt(album, 2)
    ELSE IF Truthy(ImageAt(album, 3)) THEN ImageAt(album, 3)
    ELSE ""

\* t.external_urls?.spotify || `https://open.spotify.com/track/${t.id}`
pickUrl(t) ==
    IF Truthy(t.spotify) THEN t.spotify ELSE "https://open.spotify.com/track/" \o t.id

mapTrack(t) ==
    [id |-> t.id, title |-> t.name, artists |-> artistsOf(t), album |-> albumNameOf(t),
     image |-> pickImage(t.album), url |-> pickUrl(t), duration_ms |-> t.duration_ms,
     explicit |-> (t.explicit.def /\ t.explicit.b),
     preview_url |-> IF Truthy(t.preview_url) THEN t.preview_url ELSE JSNull]

\* ------------------------------------------------------- upstream replies
\* What the token endpoint can answer: the fetch rejects (transport), or a
\* status and a body that is a JSON object, JSON null, or not JSON at all.
TokenReplyOf(transport, status, body, error, access_token, expires_in) ==
    [transport |-> transport, status |-> status, body |-> body, error |-> error,
     access_token |-> access_token, expires_in |-> expires_in]

NoTokenReply == TokenReplyOf(FALSE, 0, "none", JSUndefined, JSUndefined, Missing)
TokenTransportFailure == TokenReplyOf(TRUE, 0, "none", JSUndefined, JSUndefined, Missing)

\* the grants a well-behaved token endpoint hands out: token and lifetime (s)
Grant(tok, l) == [tok |-> tok, lifetime |-> l]
Grants == {Grant("tokA", 20), Grant("tokB", 30), Grant("tokB", 10)}
Tokens == {g.tok : g \in Grants}

TokenReplies ==
    {TokenTransportFailure}
    \cup {TokenReplyOf(FALSE, 200, "object", JSUndefined, g.tok, Field(g.lifetime)) :
            g \in Grants}
    \cup {TokenReplyOf(FALSE, 200, "object", JSUndefined, JSUndefined, Field(20)),
          TokenReplyOf(FALSE, 200, "object", JSUndefined, "tokA", Missing),
          TokenReplyOf(FALSE, 401, "object", "invalid_client", JSUndefined, Missing),
          TokenReplyOf(FALSE, 503, "object", JSUndefined, JSUndefined, Missing),
          TokenReplyOf(FALSE, 503, "null", JSUndefined, JSUndefined, Missing),
          TokenReplyOf(FALSE, 502, "invalid", JSUndefined, JSUndefined, Missing)}

\* What the search endpoint can answer.  errKind says what data.error is: an
\* object with a message ("message"), a string ("string") or missing ("none").
SearchReplyOf(transport, status, body, errKind, errText, items) ==
    [transport |-> transport, status |-> status, body |-> body, errKind |-> errKind,
     errText |-> errText, items |-> items]

NoSearchReply == SearchReplyOf(FALSE, 0, "none", "none", "", << >>)
SearchTransportFailure == SearchReplyOf(TRUE, 0, "none", "none", "", << >>)

Track1 == Track("id1", "Song 1", List(<<"Ann", "Bob">>),
                Album("Album 1", List(<<"img1a", "img1b", "img1c">>)),
                "https://open.spotify.com/track/x1", Field(180000), Bool(TRUE), "prev1")
Track2 == Track("id2", "Song 2", NoList, NoAlbum, JSUndefined, Field(200000), NoBool, JSNull)

SearchReplies ==
    {SearchTransportFailure,
     SearchReplyOf(FALSE, 200, "object", "none", "", << >>),
     SearchReplyOf(FALSE, 200, "object", "none", "", <<Track1, Track2>>),
     SearchReplyOf(FALSE, 401, "object", "message", "The access token expired", << >>),
     SearchReplyOf(FALSE, 429, "object", "string", "rate limited", << >>),
     SearchReplyOf(FALSE, 404, "object", "none", "", << >>),
     SearchReplyOf(FALSE, 503, "null", "none", "", << >>),
     SearchReplyOf(FALSE, 502, "invalid", "none", "", << >>)}

\* r.ok
Ok(status) == status >= 200 /\ status <= 299

\* ---------------------------------------------------- exception messages
FetchFailedMessage == "fetch failed"
JsonSyntaxMessage == "Unexpected token < in JSON at position 0"
NullReadMessage == "Cannot read properties of null"
\* ------------------------------------------------------------------ state
VARIABLES
    CLIENT_ID,      \* process.env.SPOTIFY_CLIENT_ID || ""
    CLIENT_SECRET,  \* process.env.SPOTIFY_CLIENT_SECRET || ""
    tokenCache,     \* { access_token, expires_at }
    now,            \* Date.now()
    req,            \* per search request: where its handler is, and its locals
    lastWrite,      \* the token exchange that wrote the cache last, and when
    lastResp,       \* what the last step took in and the response it sent, if any
    arg,            \* the argument of a function examined on its own
    result          \* and what the function made of it

vars == <<CLIENT_ID, CLIENT_SECRET, tokenCache, now, req, lastWrite, lastResp, arg, result>>

DEFAULT_MARKET == <<"I", "N">>
DefaultLang == KeyEnglish

\* the query string of a search request
Query(q, lang, market, limit) == [q |-> q, lang |-> lang, market |-> market, limit |-> limit]
NoQuery == Query(Absent, Absent, Absent, Absent)

TextA == <<"a">>
TextPaddedA == <<" ", "a", " ">>
TextBlank == <<" ", " ">>

\* the query strings tried: q absent, q blank, and two spellings of one search
SearchInputs ==
    {Query(Absent, Absent, Absent, Absent),
     Query(Param(TextBlank), Param(KeyHindi), Absent, Param(<<"7">>)),
     Query(Param(TextA), Absent, Absent, Absent),
     Query(Param(TextPaddedA), Param(<<"E", "N", "G", "L", "I", "S", "H">>),
           Param(DEFAULT_MARKET), Param(<<" ", "2", "4", ".", "9">>))}

\* a request's handler: pc and the locals of the handler and getAccessToken
\* (hit: getAccessToken returned from the cache; stale: while its exchange is
\* awaited, that it found a token in the cache and did not use it; own: the
\* access_token of the reply to this request's own exchange; bearer: the token
\* the search call carried), and how many upstream calls and responses it has
\* made
ReqState(pc, hit, stale, token, own, bearer, q, market, limit, nTok, nSearch, nResp) ==
    [pc |-> pc, hit |-> hit, stale |-> stale, token |-> token, own |-> own,
     bearer |-> bearer, q |-> q, market |-> market, limit |-> limit,
     nTok |-> nTok, nSearch |-> nSearch, nResp |-> nResp]

IdleReq == ReqState("idle", FALSE, FALSE, JSUndefined, JSUndefined, JSUndefined,
                    << >>, << >>, Num(0), 0, 0, 0)

\* mutant of the end of a handler: after the reply to its search call it goes
\* back to issue the search call again
FinishedRetries(s) ==
    IF s.pc = "search_wait"
    THEN [s EXCEPT !.pc = "token_ready"]
    ELSE ReqState("done", s.hit, FALSE, JSUndefined, JSUndefined, JSUndefined,
                  << >>, << >>, Num(0), s.nTok, 0, s.nResp + 1)

\* a handler that has responded: its locals are gone; what stays is whether
\* its getAccessToken was served from the cache and the exchanges it issued
Finished(s) == ReqState("done", s.hit, FALSE, JSUndefined, JSUndefined, JSUndefined,
                        << >>, << >>, Num(0), s.nTok, 0, s.nResp + 1)

\* what the last step took in (the query, the token reply, the search reply)
\* and the response it sent: status 0 when it sent none.  nSearch is the
\* number of search calls the responding handler had issued; ok is the body's
\* ok: true, which only the health route sends.
Resp(route, in, tokRep, searchRep, nSearch, status, error, hasDetails, details, query, results, market, cached) ==
    [route |-> route, ok |-> (route = "health"),
     in |-> in, tokRep |-> tokRep, searchRep |-> searchRep,
     nSearch |-> nSearch, status |-> status, error |-> error,
     hasDetails |-> hasDetails, details |-> details,
     query |-> query, results |-> results, market |-> market, cached |-> cached]

\* a step of a search handler that sends no response
Silent(in, tokRep) ==
    Resp("search", in, tokRep, NoSearchReply, 0, 0, JSUndefined, FALSE, NoSearchReply,
         << >>, << >>, << >>, FALSE)

NoResp == Resp("none", NoQuery, NoTokenReply, NoSearchReply, 0, 0, JSUndefined, FALSE,
               NoSearchReply, << >>, << >>, << >>, FALSE)

\* mutant of the error response: the exception's message replaced by a fixed text
ErrorRespGeneric(s, in, tokRep, searchRep, status, error) ==
    Resp("search", in, tokRep, searchRep, s.nSearch, status, "Internal error", FALSE,
         NoSearchReply, << >>, << >>, << >>, FALSE)

\* res.status(status).json({ error }) by the handler of request state s
ErrorResp(s, in, tokRep, searchRep, status, error) ==
    Resp("search", in, tokRep, searchRep, s.nSearch, status, error, FALSE, NoSearchReply,
         << >>, << >>, << >>, FALSE)

NoWrite == [rep |-> NoTokenReply, at |-> 0]

\* no function is examined on its own
NoArg == Absent
NoResult == [done |-> FALSE, limit |-> Num(0), text |-> << >>]

\* the server after start-up
ServerInit ==
    /\ CLIENT_ID \in {"", "id"}
    /\ CLIENT_SECRET \in {"", "secret"}
    /\ tokenCache = [access_token |-> JSNull, expires_at |-> Num(0)]
    /\ now = StartTime
    /\ req = [r \in Reqs |-> IdleReq]
    /\ lastWrite = NoWrite
    /\ lastResp = NoResp

Init == ServerInit /\ arg = NoArg /\ result = NoResult

\* ---------------------------------------------------------- getAccessToken
\* mutants of the freshness test: the safety margin forgotten, the
\* comparison turned around
cacheFreshNoMargin(cache, t) ==
    Truthy(cache.access_token) /\ JSLt(Num(t), cache.expires_at)

cacheFreshInverted(cache, t) ==
    Truthy(cache.access_token) /\ JSLt(JSSub(cache.expires_at, Num(SafetyMarginMs)), Num(t))

\* line 30: the cached token is served
cacheFresh(cache, t) ==
    Truthy(cache.access_token) /\ JSLt(Num(t), JSSub(cache.expires_at, Num(SafetyMarginMs)))

\* mutant of the cache write: the token stored, the old expiry left in place
cacheWriteKeepsExpiry(rep, t) ==
    [access_token |-> rep.access_token, expires_at |-> tokenCache.expires_at]

\* mutant of the cache write: the lifetime added as if it were milliseconds
cacheWriteNoConversion(rep, t) ==
    [access_token |-> rep.access_token,
     expires_at |-> JSAdd(Num(t), ToNumber(rep.expires_in))]

\* mutant of the cache write: the expiry stored, the old token left in place
cacheWriteKeepsToken(rep, t) ==
    [access_token |-> tokenCache.access_token,
     expires_at |-> JSAdd(Num(t), JSMul(ToNumber(rep.expires_in), Num(MsPerSecond)))]

\* lines 50-51: the cache after a reply with a success status, written at t
cacheWrite(rep, t) ==
    [access_token |-> rep.access_token,
     expires_at |-> JSAdd(Num(t), JSMul(ToNumber(rep.expires_in), Num(MsPerSecond)))]

\* mutant of the message: the upstream error member left out
tokenFailedMessageStatusOnly(rep) == "Spotify token failed: " \o ToString(rep.status)

\* line 48
tokenFailedMessage(rep) ==
    "Spotify token failed: " \o (IF Truthy(rep.error) THEN rep.error ELSE ToString(rep.status))

\* ------------------------------------------------------------ /api/search
\* mutant of the configuration check: && where the code has ||
credentialsBothMissing == CLIENT_ID = "" /\ CLIENT_SECRET = ""

\* line 98
credentialsMissing == CLIENT_ID = "" \/ CLIENT_SECRET = ""

\* mutant of the q check: the trim forgotten
qRawUntrimmed(in) == OrDefault(in.q, << >>)

\* line 104
qRawOf(in) == Trim(OrDefault(in.q, << >>))

\* lines 97-114 and, inside getAccessToken, lines 29-36: up to the first await
Receive(r, in) ==
    /\ req[r].pc = "idle"
    /\ \A p \in Reqs : p < r => req[p].pc # "idle"
    /\ UNCHANGED <<CLIENT_ID, CLIENT_SECRET, tokenCache, now, lastWrite, arg, result>>
    /\ IF credentialsMissing
       THEN /\ req' = [req EXCEPT ![r] = Finished(@)]
            /\ lastResp' = ErrorResp(req[r], in, NoTokenReply, NoSearchReply, StatusServerError,
                                     "Server missing Spotify credentials (.env)")
       ELSE IF qRawOf(in) = << >>
       THEN /\ req' = [req EXCEPT ![r] = Finished(@)]
            /\ lastResp' = ErrorResp(req[r], in, NoTokenReply, NoSearchReply, StatusBadRequest,
                                     "Missing query parameter: q")
       ELSE LET q == buildQuery(qRawOf(in), OrDefault(in.lang, DefaultLang))
                market == OrDefault(in.market, DEFAULT_MARKET)
                limit == clampLimit(in.limit)
            IN  /\ lastResp' = Silent(in, NoTokenReply)
                /\ IF cacheFresh(tokenCache, now)
                   THEN req' = [req EXCEPT ![r] =
                            ReqState("token_ready", TRUE, FALSE, tokenCache.access_token,
                                     JSUndefined, JSUndefined, q, market, limit, 0, 0, 0)]
                   ELSE req' = [req EXCEPT ![r] =
                            ReqState("token_wait", FALSE, Truthy(tokenCache.access_token),
                                     JSUndefined, JSUndefined, JSUndefined,
                                     q, market, limit, 1, 0, 0)]

\* lines 36-52 resumed by the token endpoint's reply (the awaits of fetch and of
\* r.json() touch no state, so they are one step), then line 114, or the
\* handler's catch (lines 141-144) when getAccessToken throws
TokenReply(r, rep) ==
    /\ req[r].pc = "token_wait"
    /\ UNCHANGED <<CLIENT_ID, CLIENT_SECRET, now, arg, result>>
    /\ IF rep.transport \/ rep.body # "object" \/ ~Ok(rep.status)
       THEN /\ UNCHANGED <<tokenCache, lastWrite>>
            /\ req' = [req EXCEPT ![r] = Finished(@)]
            /\ lastResp' = ErrorResp(req[r], NoQuery, rep, NoSearchReply, StatusServerError,
                               IF rep.transport THEN FetchFailedMessage
                               ELSE IF rep.body = "invalid" THEN JsonSyntaxMessage
                               ELSE IF rep.body = "null" THEN NullReadMessage
                               ELSE tokenFailedMessage(rep))
       ELSE /\ tokenCache' = cacheWrite(rep, now)
            /\ lastWrite' = [rep |-> rep, at |-> now]
            /\ req' = [req EXCEPT ![r].pc = "token_ready",
                                  ![r].stale = FALSE,
                                  ![r].token = tokenCache'.access_token,
                                  ![r].own = rep.access_token]
            /\ lastResp' = Silent(NoQuery, rep)

\* mutant of the bearer: the cache read again when the search call is built
bearerFromCache(r) == tokenCache.access_token

\* mutant of the bearer: only a token from the request's own exchange is sent
bearerOwnReply(r) == req[r].own

\* the bearer credential of the search call (line 124)
bearerOf(r) == req[r].token

\* lines 116-125: the search call goes out
IssueSearch(r) ==
    /\ req[r].pc = "token_ready"
    /\ req' = [req EXCEPT ![r].pc = "search_wait",
                          ![r].bearer = bearerOf(r),
                          ![r].nSearch = @ + 1]
    /\ lastResp' = NoResp
    /\ UNCHANGED <<CLIENT_ID, CLIENT_SECRET, tokenCache, now, lastWrite, arg, result>>

\* line 132: data?.error?.message || data?.error || "Spotify search failed"
searchErrorOf(rep) ==
    IF rep.body = "object" /\ rep.errKind \in {"message", "string"} /\ Truthy(rep.errText)
    THEN rep.errText
    ELSE "Spotify search failed"

\* the status of the response to a search reply with a non-success status
passThroughStatus(rep) == rep.status

\* mutant of the result list: the upstream order turned around
resultsReversed(items) == [i \in 1..Len(items) |-> mapTrack(items[Len(items) + 1 - i])]

\* lines 137-138: (data.tracks?.items || []).map(mapTrack)
resultsOf(items) == [i \in 1..Len(items) |-> mapTrack(items[i])]

\* lines 127-140 resumed by the search endpoint's reply, or the catch
SearchReply(r, rep) ==
    /\ req[r].pc = "search_wait"
    /\ req' = [req EXCEPT ![r] = Finished(@)]
    /\ UNCHANGED <<CLIENT_ID, CLIENT_SECRET, tokenCache, now, lastWrite, arg, result>>
    /\ lastResp' =
         IF rep.transport
         THEN ErrorResp(req[r], NoQuery, NoTokenReply, rep, StatusServerError, FetchFailedMessage)
         ELSE IF rep.body = "invalid"
         THEN ErrorResp(req[r], NoQuery, NoTokenReply, rep, StatusServerError, JsonSyntaxMessage)
         ELSE IF ~Ok(rep.status)
         THEN Resp("search", NoQuery, NoTokenReply, rep, req[r].nSearch,
                   passThroughStatus(rep), searchErrorOf(rep), TRUE, rep,
                   << >>, << >>, << >>, FALSE)
         ELSE IF rep.body = "null"
         THEN ErrorResp(req[r], NoQuery, NoTokenReply, rep, StatusServerError, NullReadMessage)
         ELSE Resp("search", NoQuery, NoTokenReply, rep, req[r].nSearch,
                   StatusOk, JSUndefined, FALSE, NoSearchReply, req[r].q, resultsOf(rep.items),
                   << >>, FALSE)

\* ------------------------------------------------------------ /api/health
\* mutant of token_cached: true only while the token would still be served
tokenCachedWhileFresh(cache) == cacheFresh(cache, now)

\* line 92: !!tokenCache.access_token
tokenCachedOf(cache) == Truthy(cache.access_token)

\* lines 88-94
Health ==
    /\ lastResp' = Resp("health", NoQuery, NoTokenReply, NoSearchReply, 0, StatusOk,
                        JSUndefined, FALSE, NoSearchReply, << >>, << >>, DEFAULT_MARKET,
                        tokenCachedOf(tokenCache))
    /\ UNCHANGED <<CLIENT_ID, CLIENT_SECRET, tokenCache, now, req, lastWrite, arg, result>>

\* Date.now() moves on
Tick ==
    /\ now + TickMs <= MaxTime
    /\ now' = now + TickMs
    /\ lastResp' = NoResp
    /\ UNCHANGED <<CLIENT_ID, CLIENT_SECRET, tokenCache, req, lastWrite, arg, result>>

Next ==
    \/ \E r \in Reqs, in \in SearchInputs : Receive(r, in)
    \/ \E r \in Reqs, rep \in TokenReplies : TokenReply(r, rep)
    \/ \E r \in Reqs : IssueSearch(r)
    \/ \E r \in Reqs, rep \in SearchReplies : SearchReply(r, rep)
    \/ Health
    \/ Tick

Spec == Init /\ [][Next]_vars

\* every upstream call completes, with a reply or a transport failure, and
\* the event loop resumes the handler that awaits it
Fairness ==
    \A r \in Reqs :
        /\ WF_vars(\E rep \in TokenReplies : TokenReply(r, rep))
        /\ WF_vars(IssueSearch(r))
        /\ WF_vars(\E rep \in SearchReplies : SearchReply(r, rep))

SpecLive == Init /\ [][Next]_vars /\ Fairness

\* ------------------------------------------------- clampLimit on its own
MaxLimitLen == 3

LimitAlphabet == {"-", "0", "1", "2", "4", "5", "9", "a", " "}

RECURSIVE TextsUpTo(_, _)
TextsUpTo(alphabet, n) ==
    IF n = 0 THEN {<< >>}
    ELSE LET shorter == TextsUpTo(alphabet, n - 1)
         IN  shorter \cup {Append(s, c) : s \in shorter, c \in alphabet}

LimitParams == {Absent} \cup {Param(s) : s \in TextsUpTo(LimitAlphabet, MaxLimitLen)}

RECURSIVE DecimalText(_)
DecimalText(n) ==
    IF n < 10 THEN <<Digits[n + 1]>> ELSE Append(DecimalText(n \div 10), Digits[(n % 10) + 1])

\* String(limit), line 120
limitText(l) ==
    IF l.nan THEN <<"N", "a", "N">>
    ELSE IF l.v < 0 THEN <<"-">> \o DecimalText(0 - l.v)
    ELSE DecimalText(l.v)

InitLimit ==
    /\ ServerInit /\ CLIENT_ID = "id" /\ CLIENT_SECRET = "secret"
    /\ arg \in LimitParams
    /\ result = NoResult

\* lines 111 and 120 applied to req.query.limit = arg
ApplyClampLimit ==
    /\ ~result.done
    /\ result' = [done |-> TRUE, limit |-> clampLimit(arg), text |-> limitText(clampLimit(arg))]
    /\ UNCHANGED <<CLIENT_ID, CLIENT_SECRET, tokenCache, now, req, lastWrite, lastResp, arg>>

NextLimit == ApplyClampLimit

SpecLimit == InitLimit /\ [][NextLimit]_vars

\* ------------------------------------- qRaw, lang and buildQuery on their own
MaxQueryLen == 5

QueryAlphabet == {"a", "b", " "}

QueryParams == {Absent} \cup {Param(s) : s \in TextsUpTo(QueryAlphabet, MaxQueryLen)}

TextKlingon == <<"k", "l", "i", "n", "g", "o", "n">>

LangParams ==
    {Absent, Param(<< >>),
     Param(KeyHindi), Param(KeyEnglish), Param(KeyKannada), Param(KeyTamil), Param(KeyTelugu),
     Param(<<"H", "i", "n", "d", "i">>), Param(<<"T", "A", "M", "I", "L">>),
     Param(<<"t", "e", "L", "u", "G", "u">>),
     Param(TextKlingon), Param(<<"h", "i", "n", "d">>), Param(<<" ">> \o KeyHindi),
     Param(KeyConstructor), Param(<<"C", "o", "n", "s", "t", "r", "u", "c", "t", "o", "r">>),
     Param(KeyProto)}

InitQuery ==
    /\ ServerInit /\ CLIENT_ID = "id" /\ CLIENT_SECRET = "secret"
    /\ arg \in {[q |-> q, lang |-> l] : q \in QueryParams, l \in LangParams}
    /\ result = NoResult

\* lines 104-113 applied to req.query = arg
ApplyBuildQuery ==
    /\ ~result.done
    /\ result' = IF qRawOf(arg) = << >>
                 THEN [done |-> TRUE, rejected |-> TRUE, query |-> << >>]
                 ELSE [done |-> TRUE, rejected |-> FALSE,
                       query |-> buildQuery(qRawOf(arg), OrDefault(arg.lang, DefaultLang))]
    /\ UNCHANGED <<CLIENT_ID, CLIENT_SECRET, tokenCache, now, req, lastWrite, lastResp, arg>>

NextQuery == ApplyBuildQuery

SpecQuery == InitQuery /\ [][NextQuery]_vars

\* --------------------------------------------------- mapTrack on its own
MaxImages == 4

\* what the i-th album image may hold as its url: none, an empty one, its own
ImageEntries(i) == {JSUndefined, "", "img" \o ToString(i)}

RECURSIVE ImageListsUpTo(_)
ImageListsUpTo(n) ==
    IF n = 0 THEN {<< >>}
    ELSE LET shorter == ImageListsUpTo(n - 1)
         IN  shorter \cup {Append(s, e) : s \in {x \in shorter : Len(x) = n - 1},
                                          e \in ImageEntries(n)}

Albums ==
    {NoAlbum, Album("Album 1", NoList)}
    \cup {Album("Album 1", List(s)) : s \in ImageListsUpTo(MaxImages)}

TrackInputs ==
    {Track(id, "Song", List(<<"Ann", "Bob">>), album, sp, Field(1000), Bool(FALSE), JSNull) :
        id \in {"id1", "id2"}, album \in Albums,
        sp \in {JSUndefined, "", "https://open.spotify.com/track/x"}}

InitTrack ==
    /\ ServerInit /\ CLIENT_ID = "id" /\ CLIENT_SECRET = "secret"
    /\ arg \in TrackInputs
    /\ result = NoResult

\* lines 69-85 applied to t = arg
ApplyMapTrack ==
    /\ ~result.done
    /\ result' = [done |-> TRUE, track |-> mapTrack(arg)]
    /\ UNCHANGED <<CLIENT_ID, CLIENT_SECRET, tokenCache, now, req, lastWrite, lastResp, arg>>

NextTrack == ApplyMapTrack

SpecTrack == InitTrack /\ [][NextTrack]_vars

\* ----------------------------------------------------------------- claims
\* the claims' own reading of "a token is cached and now < expires_at - 10 s"
ValidWindow(cache, t) ==
    /\ cache.access_token \notin {JSNull, JSUndefined, ""}
    /\ ~cache.expires_at.nan
    /\ t < cache.expires_at.v - SafetyMarginMs

\* this step is request r's handler calling getAccessToken
CallsGetAccessToken(r) ==
    req[r].pc = "idle" /\ req'[r].pc \in {"token_wait", "token_ready"}

\* this step is request r's token exchange completing with success
ExchangeSucceeds(r) == req[r].pc = "token_wait" /\ req'[r].pc = "token_ready"

\* the requests whose handler has called getAccessToken
Called == {r \in Reqs : req[r].hit \/ req[r].nTok > 0}

RECURSIVE ExchangesUpTo(_)
ExchangesUpTo(n) == IF n = 0 THEN 0 ELSE req[n].nTok + ExchangesUpTo(n - 1)

\* token exchange calls issued so far, over all requests
TotalExchanges == ExchangesUpTo(NumReq)

\* C1: getAccessToken returns the cached token, without an exchange, exactly
\* when a token is cached and now < expires_at - 10 s at the call; otherwise
\* it issues an exchange and what it returns is the token of that exchange's
\* reply, not the cached one.
C1_CacheServedOnlyWhileFresh ==
    [][\A r \in Reqs :
        /\ CallsGetAccessToken(r) =>
             IF ValidWindow(tokenCache, now)
             THEN /\ req'[r].pc = "token_ready"
                  /\ req'[r].token = tokenCache.access_token
                  /\ req'[r].nTok = 0
             ELSE /\ req'[r].pc = "token_wait"
                  /\ req'[r].nTok = 1
        /\ ExchangeSucceeds(r) => req'[r].token = lastWrite'.rep.access_token]_vars

\* a request was served the cached token some time after it was written
C1_Witness ==
    \E r \in Reqs : req[r].pc = "token_ready" /\ req[r].hit /\ now > lastWrite.at

\* C2: starting from an empty cache, when a second valid search calls
\* getAccessToken inside the validity window of the token the first one
\* cached, one token exchange has been issued in total, and neither search
\* issues another one later.
C2_TokenReuse ==
    [][\A r \in Reqs :
        /\ (CallsGetAccessToken(r) /\ Cardinality(Called) = 1
              /\ ValidWindow(tokenCache, now)) => TotalExchanges' = 1
        /\ req[r].pc # "idle" => req'[r].nTok = req[r].nTok]_vars

\* two searches were handled to the end on one exchange
C2_Witness ==
    /\ Cardinality(Called) = 2
    /\ \A r \in Called : req[r].pc = "done"
    /\ \E r \in Called : req[r].hit
    /\ TotalExchanges = 1

\* this step is request r's search call going out
IssuesSearch(r) == req'[r].nSearch = req[r].nSearch + 1

\* what a reply with a success status, received at t, should leave in the cache
Granted(rep, t) ==
    [access_token |-> rep.access_token,
     expires_at |-> IF rep.expires_in.def
                    THEN [nan |-> FALSE, v |-> t + 1000 * rep.expires_in.n]
                    ELSE [nan |-> TRUE, v |-> 0]]

\* C3: a valid search that calls getAccessToken when the cached token has
\* reached its expiry minus 10 s issues exactly one exchange and no search
\* call yet; its search call goes out only after that exchange has completed;
\* and the completing exchange overwrites the cache with the new token and
\* the expiry now + 1000 * lifetime.
C3_TokenRefresh ==
    [][\A r \in Reqs :
        /\ (CallsGetAccessToken(r) /\ tokenCache.access_token \notin {JSNull, JSUndefined, ""}
              /\ ~ValidWindow(tokenCache, now))
           => (req'[r].pc = "token_wait" /\ req'[r].nTok = 1 /\ req'[r].nSearch = 0)
        /\ (IssuesSearch(r) /\ ~req[r].hit) => (req[r].pc = "token_ready" /\ req[r].nTok = 1)
        /\ req[r].pc \in {"token_wait", "token_ready", "search_wait"}
           => req'[r].nTok = req[r].nTok
        /\ ExchangeSucceeds(r) => tokenCache' = Granted(lastWrite'.rep, now)]_vars

\* a search found a cached token that it could not use for its age, and
\* its exchange is on the way
C3_Witness ==
    \E r \in Reqs :
        /\ req[r].pc = "token_wait" /\ req[r].stale
        /\ tokenCache.access_token \in Tokens
        /\ now >= tokenCache.expires_at.v - SafetyMarginMs
        /\ now > lastWrite.at

\* C4: with no lock around the cache, requests that call getAccessToken while
\* no token is cached each issue their own exchange; each one whose exchange
\* succeeds sends its search with the token its own exchange returned, and
\* once no exchange is in flight the cache holds the token and expiry of the
\* exchange that wrote it last.
C4_RedundantExchangesHarmless ==
    /\ \A r \in Reqs :
         /\ (req[r].pc = "token_wait") => (~req[r].hit /\ req[r].nTok = 1)
         /\ (req[r].pc = "search_wait" /\ ~req[r].hit) => req[r].bearer = req[r].own
    /\ (lastWrite # NoWrite /\ \A r \in Reqs : req[r].pc # "token_wait")
       => tokenCache = Granted(lastWrite.rep, lastWrite.at)

\* two requests have found the cache empty and each has its own exchange
\* in flight
C4_Witness ==
    \E r1, r2 \in Reqs :
        /\ r1 # r2
        /\ tokenCache.access_token = JSNull
        /\ \A r \in {r1, r2} : req[r].pc = "token_wait" /\ req[r].nTok = 1

\* this step is request r's handler starting
ReceiveStep(r) == req[r].pc = "idle" /\ req'[r].pc # "idle"

\* this step is request r's handler resuming on the reply to its exchange
TokenReplyStep(r) == req[r].pc = "token_wait" /\ req'[r].pc # "token_wait"

\* this step is request r's handler resuming on the reply to its search call
SearchReplyStep(r) == req[r].pc = "search_wait" /\ req'[r].pc # "search_wait"

\* q is absent or blank after trimming, as the claims read it
BlankQ(in) == ~in.q.present \/ \A i \in 1..Len(in.q.val) : in.q.val[i] \in {" ", "\t", "\n"}

\* a token reply with a success status whose payload lacks a member
MalformedGrant(rep) ==
    /\ ~rep.transport /\ rep.status >= 200 /\ rep.status <= 299 /\ rep.body = "object"
    /\ (rep.access_token \in {JSNull, JSUndefined, ""} \/ ~rep.expires_in.def)

\* a token reply with a non-success status
RefusedGrant(rep) == ~rep.transport /\ rep.status # 0 /\ ~(rep.status >= 200 /\ rep.status <= 299)

\* C5: getAccessToken fails, and the handler answers without a search call,
\* when the token endpoint answers with a non-success status or with a success
\* status and a payload that lacks access_token or expires_in; no absent token
\* is returned to the handler or stored in the cache.
C5_MalformedGrantRejected ==
    /\ (RefusedGrant(lastResp.tokRep) \/ MalformedGrant(lastResp.tokRep))
       => (lastResp.status # 0 /\ lastResp.nSearch = 0)
    /\ \A r \in Reqs :
         req[r].pc \in {"token_ready", "search_wait"}
         => req[r].token \notin {JSNull, JSUndefined, ""}
    /\ tokenCache.access_token # JSUndefined
    /\ ~tokenCache.expires_at.nan

\* C6 as stated: a search whose q is absent or blank is answered 400
\* "Missing query parameter: q" whatever the configuration, with no upstream call.
C6_BlankQueryAlways400 ==
    [][\A r \in Reqs :
        (ReceiveStep(r) /\ BlankQ(lastResp'.in))
        => /\ lastResp'.status = 400
           /\ lastResp'.error = "Missing query parameter: q"
           /\ req'[r].pc = "done" /\ req'[r].nTok = 0 /\ req'[r].nSearch = 0]_vars

\* C6 as amended: a search whose q is absent or blank makes no upstream call
\* in any configuration, and when both credentials are configured it is
\* answered 400 "Missing query parameter: q" (with a credential missing the
\* configuration error of C7 comes first).
C6_BlankQuery400WhenConfigured ==
    [][\A r \in Reqs :
        (ReceiveStep(r) /\ BlankQ(lastResp'.in))
        => /\ req'[r].pc = "done" /\ req'[r].nTok = 0 /\ req'[r].nSearch = 0
           /\ req'[r].nResp = 1 /\ tokenCache' = tokenCache
           /\ (CLIENT_ID # "" /\ CLIENT_SECRET # "")
              => (/\ lastResp'.status = 400
                  /\ lastResp'.error = "Missing query parameter: q"
                  /\ ~lastResp'.hasDetails)]_vars

\* a q of blanks only was answered 400
C6_Witness ==
    /\ lastResp.status = 400
    /\ lastResp.in.q.present /\ lastResp.in.q.val # << >>
    /\ \E r \in Reqs : req[r].pc = "done" /\ req[r].nTok = 0

\* C7: with the client id or the client secret not configured, every search
\* is answered 500 "Server missing Spotify credentials (.env)" in the step
\* that receives it: no token exchange, no search call, the cache untouched.
C7_MissingCredentials500 ==
    [][\A r \in Reqs :
        (ReceiveStep(r) /\ (CLIENT_ID = "" \/ CLIENT_SECRET = ""))
        => /\ lastResp'.status = 500
           /\ lastResp'.error = "Server missing Spotify credentials (.env)"
           /\ req'[r].pc = "done" /\ req'[r].nTok = 0 /\ req'[r].nSearch = 0
           /\ req'[r].nResp = 1
           /\ tokenCache' = tokenCache]_vars

\* a search with a usable q was refused although the client id is configured
C7_Witness ==
    /\ CLIENT_ID # "" /\ CLIENT_SECRET = ""
    /\ lastResp.status = 500 /\ ~BlankQ(lastResp.in)
    /\ lastResp.error = "Server missing Spotify credentials (.env)"

\* a search reply with a non-success status
FailedSearch(rep) == ~rep.transport /\ rep.status # 0 /\ ~(rep.status >= 200 /\ rep.status <= 299)

\* C8: a search reply with a non-success status s is answered with status s
\* and a body holding error and details (the upstream payload), and the
\* handler had issued one search call.
C8_SearchFailurePassedThrough ==
    FailedSearch(lastResp.searchRep)
    => /\ lastResp.status = lastResp.searchRep.status
       /\ lastResp.error \notin {JSNull, JSUndefined, ""}
       /\ lastResp.hasDetails /\ lastResp.details = lastResp.searchRep
       /\ lastResp.nSearch = 1

\* C9 as stated: a token reply with a non-success status s is answered to the
\* client with status s.
C9_TokenFailureStatusPassedThrough ==
    RefusedGrant(lastResp.tokRep) => lastResp.status = lastResp.tokRep.status

\* the failure message the amended C9 expects
TokenFailureDetail(rep) ==
    CASE rep.body = "invalid" -> "Unexpected token < in JSON at position 0"
      [] rep.body = "null" -> "Cannot read properties of null"
      [] OTHER -> "Spotify token failed: "
                  \o (IF rep.error \in {JSNull, JSUndefined, ""}
                      THEN ToString(rep.status) ELSE rep.error)

\* C9 as amended: a token reply with a non-success status s is answered to
\* the client with status 500, never s; the body holds only error, which is
\* "Spotify token failed: " followed by the payload's error member, or by s
\* when it has none (the exception's message when the payload is no JSON
\* object); no search call is made.
C9_TokenFailureAnswered500 ==
    RefusedGrant(lastResp.tokRep)
    => /\ lastResp.status = 500
       /\ lastResp.error = TokenFailureDetail(lastResp.tokRep)
       /\ ~lastResp.hasDetails
       /\ lastResp.nSearch = 0

\* a 401 "invalid_client" from the token endpoint reached the client as a 500
C9_Witness ==
    /\ lastResp.tokRep.status = 401
    /\ lastResp.status = 500
    /\ lastResp.error = "Spotify token failed: invalid_client"

\* C10: whatever req.query.limit holds, the limit sent upstream is an integer
\* in 1..50: 24 when the parameter is absent, and the clamped value otherwise,
\* also when the parameter does not parse as an integer.
C10_LimitAlwaysInRange ==
    result.done
    => /\ ~result.limit.nan
       /\ result.limit.v >= 1 /\ result.limit.v <= 50
       /\ result.text = DecimalText(result.limit.v)
       /\ ~arg.present => result.limit.v = 24

\* s without the white space at its two ends, as the claims read trim(query)
Trimmed(s) ==
    LET inked == {i \in 1..Len(s) : s[i] \notin {" ", "\t", "\n"}}
    IN  IF inked = {} THEN << >>
        ELSE SubSeq(s, CHOOSE i \in inked : \A j \in inked : i <= j,
                       CHOOSE i \in inked : \A j \in inked : i >= j)

HasDoubleSpace(s) == \E i \in 1..(Len(s) - 1) : s[i] = " " /\ s[i + 1] = " "

Padded(s) == s # << >> /\ (s[1] \in {" ", "\t", "\n"} \/ s[Len(s)] \in {" ", "\t", "\n"})

\* the phrase the Language Hint Table gives for a key, nothing for other keys
TablePhrase(key) ==
    CASE key = <<"h", "i", "n", "d", "i">> -> <<"H", "i", "n", "d", "i", " ", "s", "o", "n", "g">>
      [] key = <<"e", "n", "g", "l", "i", "s", "h">> -> <<"E", "n", "g", "l", "i", "s", "h", " ", "s", "o", "n", "g">>
      [] key = <<"k", "a", "n", "n", "a", "d", "a">> -> <<"K", "a", "n", "n", "a", "d", "a", " ", "s", "o", "n", "g">>
      [] key = <<"t", "a", "m", "i", "l">> -> <<"T", "a", "m", "i", "l", " ", "s", "o", "n", "g">>
      [] key = <<"t", "e", "l", "u", "g", "u">> -> <<"T", "e", "l", "u", "g", "u", " ", "s", "o", "n", "g">>
      [] OTHER -> << >>

\* the augmented query is trim(query), or trim(query), one space and a phrase
\* that does not begin with a space; it is the latter, with the table's
\* phrase, when lang is spelled as one of the table's keys
AugmentedShape ==
    LET t == Trimmed(arg.q.val)
        a == result.query
        n == Len(t)
    IN  /\ \/ a = t
           \/ /\ Len(a) > n + 1 /\ SubSeq(a, 1, n) = t
              /\ a[n + 1] = " " /\ a[n + 2] # " "
        /\ ~Padded(a)
        /\ (arg.lang.present /\ TablePhrase(arg.lang.val) # << >>)
           => a = t \o <<" ">> \o TablePhrase(arg.lang.val)
        /\ (arg.lang.present /\ arg.lang.val = <<"k", "l", "i", "n", "g", "o", "n">>) => a = t

\* C11 as stated: for every non-blank q and every lang the augmented query is
\* trim(q), alone or followed by one space and the hint phrase; it has no
\* white space at either end and never holds two spaces in a row.
C11_AugmentedQueryNoDoubleSpace ==
    (result.done /\ ~result.rejected)
    => (AugmentedShape /\ ~HasDoubleSpace(result.query))

\* C11 as amended: the same, except that the spaces inside trim(q) are kept
\* as they are: the augmented query holds two spaces in a row exactly when
\* trim(q) does.
C11_AugmentedQueryKeepsInnerSpaces ==
    (result.done /\ ~result.rejected)
    => /\ AugmentedShape
       /\ HasDoubleSpace(result.query) <=> HasDoubleSpace(Trimmed(arg.q.val))

\* a padded q with two spaces inside it was joined to a hint phrase
C11_Witness ==
    /\ result.done /\ ~result.rejected
    /\ Padded(arg.q.val) /\ HasDoubleSpace(Trimmed(arg.q.val))
    /\ Len(result.query) > Len(Trimmed(arg.q.val))

\* the key the claims look up: lang in lower case, "english" when lang is
\* absent or empty
ClaimedKey(lang) ==
    IF lang.present /\ lang.val # << >>
    THEN ToLowerCase(lang.val)
    ELSE <<"e", "n", "g", "l", "i", "s", "h">>

\* C12: an absent lang counts as "english"; the lookup ignores case and knows
\* the five keys hindi, english, kannada, tamil, telugu only: with any other
\* lang the augmented query is trim(q) alone, with one of the five it is
\* trim(q), one space and the key's phrase.
C12_OnlyTableKeysAddSuffix ==
    (result.done /\ ~result.rejected)
    => result.query =
         IF TablePhrase(ClaimedKey(arg.lang)) = << >>
         THEN Trimmed(arg.q.val)
         ELSE Trimmed(arg.q.val) \o <<" ">> \o TablePhrase(ClaimedKey(arg.lang))

\* C13: a search request issues at most one token exchange and at most one
\* search call: an exchange goes out only in the step that receives the
\* request, a search call only once and only from the handler that holds a
\* token, and a handler resumed by a reply to either call, whatever the reply,
\* issues no call in that step; a handler that has answered issues none later.
C13_NoRetries ==
    [][\A r \in Reqs :
        /\ req'[r].nTok <= 1 /\ req'[r].nSearch <= 1
        /\ req'[r].nTok # req[r].nTok => (req[r].pc = "idle" /\ req[r].nTok = 0)
        /\ req'[r].nSearch > req[r].nSearch
           => (req[r].pc = "token_ready" /\ req[r].nSearch = 0 /\ req'[r].pc = "search_wait")
        /\ TokenReplyStep(r) => req'[r].pc \in {"token_ready", "done"}
        /\ (TokenReplyStep(r) /\ lastResp'.status # 0) => req'[r].pc = "done"
        /\ SearchReplyStep(r) => req'[r].pc = "done"
        /\ req[r].pc = "done" => req'[r] = req[r]]_vars

\* a search call failed in transport after an exchange of the same request,
\* and the request was answered
C13_Witness ==
    /\ lastResp.searchRep.transport /\ lastResp.status = 500 /\ lastResp.nSearch = 1
    /\ \E r \in Reqs : req[r].pc = "done" /\ req[r].nTok = 1 /\ req[r].nResp = 1

\* C14: GET /api/health answers 200 with ok: true, the default market and
\* token_cached in whatever state the server is; it makes no upstream call,
\* touches neither the cache nor any search in flight, and token_cached is
\* true exactly when the cache holds a token, expired or not.
C14_HealthAlways200 ==
    /\ [](ENABLED Health)
    /\ [][lastResp'.route = "health"
          => /\ lastResp'.status = 200 /\ lastResp'.ok
             /\ lastResp'.market = <<"I", "N">>
             /\ lastResp'.cached = (tokenCache.access_token \notin {JSNull, JSUndefined, ""})
             /\ ~lastResp'.hasDetails /\ lastResp'.error = JSUndefined
             /\ tokenCache' = tokenCache /\ req' = req /\ lastWrite' = lastWrite
             /\ now' = now]_vars

\* health reported a cached token that is past its expiry minus the margin,
\* while a search was waiting for its upstream reply
C14_Witness ==
    /\ lastResp.route = "health" /\ lastResp.cached
    /\ ~ValidWindow(tokenCache, now)
    /\ \E r \in Reqs : req[r].pc = "search_wait"

\* the album images of an upstream track, none when it has no album or the
\* album no images
ImagesOf(t) == IF t.album.def /\ t.album.images.def THEN t.album.images.list ELSE << >>

\* the url of the first of the first three images that has a non-empty url,
\* the empty string when none has
FirstImageUrl(t) ==
    LET imgs == ImagesOf(t)
        with == {i \in 1..3 : i <= Len(imgs) /\ imgs[i] \notin {JSNull, JSUndefined, ""}}
    IN  IF with = {} THEN "" ELSE imgs[CHOOSE i \in with : \A j \in with : i <= j]

\* C15 as stated: image is the url of the first of the first three album
\* images that has a non-empty url, "" when there is none; url is
\* external_urls.spotify whenever the track has that member, and
\* https://open.spotify.com/track/<id> otherwise.
C15_UrlWheneverPresent ==
    result.done
    => /\ result.track.image = FirstImageUrl(arg)
       /\ result.track.url = IF arg.spotify # JSUndefined THEN arg.spotify
                             ELSE "https://open.spotify.com/track/" \o arg.id

\* C15 as amended: the same for image; url is external_urls.spotify when the
\* track has that member with a non-empty value, and
\* https://open.spotify.com/track/<id> otherwise, also when the member is
\* the empty string.
C15_TrackMapping ==
    result.done
    => /\ result.track.image = FirstImageUrl(arg)
       /\ Len(ImagesOf(arg)) = 0 => result.track.image = ""
       /\ result.track.url = IF arg.spotify \notin {JSNull, JSUndefined, ""} THEN arg.spotify
                             ELSE "https://open.spotify.com/track/" \o arg.id
       /\ result.track.id = arg.id

\* a track whose first image has no url and whose second has one was mapped,
\* its external url being empty
C15_Witness ==
    /\ result.done
    /\ Len(ImagesOf(arg)) >= 3
    /\ ImagesOf(arg)[1] = JSUndefined /\ result.track.image = ImagesOf(arg)[2]
    /\ result.track.image # ""
    /\ arg.spotify = "" /\ result.track.url = "https://open.spotify.com/track/" \o arg.id

\* C16: within one search request the search call goes out only from the
\* handler to which getAccessToken has returned, never in the step that
\* validates the request; the bearer it carries is the token getAccessToken
\* returned to this request: the token that was in the cache at the call on a
\* hit, the access_token of the request's own exchange otherwise, whatever
\* other requests have written to the cache since.
C16_SearchAfterTokenWithItsBearer ==
    [][\A r \in Reqs :
        /\ ReceiveStep(r) => (req'[r].nSearch = 0 /\ req'[r].pc # "search_wait")
        /\ (ReceiveStep(r) /\ req'[r].hit) => req'[r].token = tokenCache.access_token
        /\ ExchangeSucceeds(r) => req'[r].token = lastResp'.tokRep.access_token
        /\ req[r].pc = "token_ready" => req'[r].token = req[r].token
        /\ IssuesSearch(r)
           => /\ req[r].pc = "token_ready" /\ (req[r].hit \/ req[r].nTok = 1)
              /\ req'[r].bearer = req[r].token
              /\ ~req[r].hit => req'[r].bearer = req[r].own
        /\ req'[r].pc = "search_wait" => req[r].pc \in {"token_ready", "search_wait"}]_vars

\* a search call has just gone out with the token of its own exchange, after
\* the exchange of another request had put a different token into the cache
C16_Witness ==
    \E r, o \in Reqs :
        /\ r # o /\ req[r].pc = "search_wait" /\ req[o].pc = "token_ready"
        /\ req[r].bearer \in Tokens /\ tokenCache.access_token \in Tokens
        /\ req[r].bearer # tokenCache.access_token
        /\ lastResp = NoResp /\ now = StartTime

\* the reply makes the token exchange fail: in transport, by a body that is
\* no JSON object, or by a non-success status
TokenExchangeFails(rep) ==
    rep.transport \/ rep.body \in {"invalid", "null"} \/ RefusedGrant(rep)

\* the reply makes the search call throw: in transport or by a body that
\* cannot be parsed
SearchCallThrows(rep) == rep.transport \/ rep.body = "invalid"

\* the message of the exception a failing upstream call raises
ExceptionMessage(transport, body) ==
    CASE transport -> "fetch failed"
      [] body = "invalid" -> "Unexpected token < in JSON at position 0"
      [] OTHER -> "Cannot read properties of null"

\* C17: a token exchange that fails (transport, unparseable body, thrown
\* "Spotify token failed"), and a search call that fails in transport or
\* whose body cannot be parsed, is answered in the same step with status 500
\* and a body that holds error, the exception's message, and nothing else;
\* the handler ends there with its one response.
C17_OtherFailures500 ==
    [][\A r \in Reqs :
        /\ (TokenReplyStep(r) /\ TokenExchangeFails(lastResp'.tokRep))
           => /\ lastResp'.status = 500 /\ ~lastResp'.hasDetails
              /\ lastResp'.error =
                   IF lastResp'.tokRep.transport \/ lastResp'.tokRep.body \in {"invalid", "null"}
                   THEN ExceptionMessage(lastResp'.tokRep.transport, lastResp'.tokRep.body)
                   ELSE TokenFailureDetail(lastResp'.tokRep)
              /\ req'[r].pc = "done" /\ req'[r].nResp = 1
        /\ (SearchReplyStep(r) /\ SearchCallThrows(lastResp'.searchRep))
           => /\ lastResp'.status = 500 /\ ~lastResp'.hasDetails
              /\ lastResp'.error = ExceptionMessage(lastResp'.searchRep.transport,
                                                    lastResp'.searchRep.body)
              /\ req'[r].pc = "done" /\ req'[r].nResp = 1]_vars

\* a token exchange failed in transport and the search was answered 500
\* "fetch failed"
C17_Witness ==
    /\ lastResp.tokRep.transport
    /\ lastResp.status = 500 /\ lastResp.error = "fetch failed"
    /\ \E r \in Reqs : req[r].pc = "done" /\ req[r].nTok = 1 /\ req[r].nResp = 1

\* a token reply with a success status that holds a token and a lifetime
WellFormedGrant(rep) ==
    /\ ~rep.transport /\ rep.status >= 200 /\ rep.status <= 299 /\ rep.body = "object"
    /\ rep.access_token \notin {JSNull, JSUndefined, ""} /\ rep.expires_in.def

\* C18: an exchange that succeeds at time t with a token and a lifetime of L
\* seconds leaves that token in the cache with expires_at = t + 1000 * L; a
\* later getAccessToken call, made while that write is the last one, is served
\* from the cache exactly when now < t + 1000 * L - 10000; so a token with
\* L <= 10 is never served from the cache.
C18_ExpiryFromLifetime ==
    [][\A r \in Reqs :
        /\ (ExchangeSucceeds(r) /\ WellFormedGrant(lastResp'.tokRep))
           => /\ tokenCache'.access_token = lastResp'.tokRep.access_token
              /\ ~tokenCache'.expires_at.nan
              /\ tokenCache'.expires_at.v = now + 1000 * lastResp'.tokRep.expires_in.n
        /\ (CallsGetAccessToken(r) /\ WellFormedGrant(lastWrite.rep))
           => /\ req'[r].hit <=> now < lastWrite.at + 1000 * lastWrite.rep.expires_in.n - 10000
              /\ req'[r].hit => req'[r].token = lastWrite.rep.access_token
              /\ lastWrite.rep.expires_in.n <= 10 => ~req'[r].hit]_vars

\* a getAccessToken call made at the very time a 10-second token was written
\* found it in the cache and issued an exchange all the same
C18_Witness ==
    \E r \in Reqs :
        /\ req[r].pc = "token_wait" /\ req[r].stale
        /\ WellFormedGrant(lastWrite.rep) /\ lastWrite.rep.expires_in.n = 10
        /\ now = lastWrite.at
        /\ tokenCache.access_token = lastWrite.rep.access_token

\* C19: a token exchange that fails (transport, non-success status, body that
\* is no JSON object) leaves access_token and expires_at as they were; the
\* cache changes only in the step of an exchange that succeeds, and there
\* both fields are written from that one reply, so in every state the token
\* and the expiry in the cache come from the same reply.
C19_FailedExchangeKeepsCache ==
    [][/\ \A r \in Reqs :
            (TokenReplyStep(r) /\ TokenExchangeFails(lastResp'.tokRep))
            => (tokenCache' = tokenCache /\ lastWrite' = lastWrite)
       /\ tokenCache' # tokenCache
          => /\ \E r \in Reqs : ExchangeSucceeds(r)
             /\ tokenCache' = Granted(lastResp'.tokRep, now)
       /\ lastWrite' # NoWrite => tokenCache' = Granted(lastWrite'.rep, lastWrite'.at)
       /\ \A r \in Reqs :
            (CallsGetAccessToken(r) /\ ~ValidWindow(tokenCache, now))
            => req'[r].pc = "token_wait"]_vars

\* an exchange failed while the cache held a token past its expiry minus the
\* margin, and the token is still there
C19_Witness ==
    /\ TokenExchangeFails(lastResp.tokRep) /\ lastResp.status = 500
    /\ tokenCache.access_token \in Tokens
    /\ ~ValidWindow(tokenCache, now)
    /\ tokenCache = Granted(lastWrite.rep, lastWrite.at)

\* a search reply with a success status and a JSON object as its body
SearchSucceeds(rep) ==
    ~rep.transport /\ rep.status >= 200 /\ rep.status <= 299 /\ rep.body = "object"

\* each handler can take its next step whatever the other handlers wait for
NothingBlocked ==
    \A r \in Reqs :
        /\ (req[r].pc = "idle" /\ \A p \in Reqs : p < r => req[p].pc # "idle")
           => ENABLED (\E in \in SearchInputs : Receive(r, in))
        /\ req[r].pc = "token_wait" => ENABLED (\E rep \in TokenReplies : TokenReply(r, rep))
        /\ req[r].pc = "token_ready" => ENABLED IssueSearch(r)
        /\ req[r].pc = "search_wait" => ENABLED (\E rep \in SearchReplies : SearchReply(r, rep))

\* C20: a search request is answered once: its response count goes from 0 to
\* 1 in the step that ends its handler and never changes again; when its
\* upstream calls complete, every request received is answered in the end;
\* when both calls succeed the response is 200 with the augmented query and
\* one simplified track per upstream item, in upstream order; and no handler
\* has to wait for another one.
C20_ExactlyOneResponse ==
    /\ [][\A r \in Reqs :
            /\ req'[r].nResp <= 1
            /\ (req'[r].pc = "done") <=> (req'[r].nResp = 1)
            /\ req'[r].nResp # req[r].nResp
               => /\ req[r].pc # "done" /\ req[r].nResp = 0
                  /\ lastResp'.route = "search" /\ lastResp'.status # 0
            /\ (SearchReplyStep(r) /\ SearchSucceeds(lastResp'.searchRep))
               => /\ lastResp'.status = 200
                  /\ lastResp'.query = req[r].q
                  /\ lastResp'.query = <<"a", " ">> \o TablePhrase(<<"e", "n", "g", "l", "i", "s", "h">>)
                  /\ Len(lastResp'.results) = Len(lastResp'.searchRep.items)
                  /\ \A i \in 1..Len(lastResp'.results) :
                       /\ lastResp'.results[i].id = lastResp'.searchRep.items[i].id
                       /\ lastResp'.results[i].title = lastResp'.searchRep.items[i].name]_vars
    /\ \A r \in Reqs : (req[r].pc # "idle") ~> (req[r].pc = "done" /\ req[r].nResp = 1)
    /\ []NothingBlocked

\* every search was answered once, the last one with 200 and two tracks
C20_Witness ==
    /\ \A r \in Reqs : req[r].pc = "done" /\ req[r].nResp = 1
    /\ lastResp.status = 200 /\ Len(lastResp.results) = 2
    /\ lastResp.results[1].id = "id1" /\ lastResp.results[2].id = "id2"
====
